---- MODULE Spec2Model ----
(***************************************************************************)
(* Model of ChineseVietnameseTranslator (src/main.py): the three lexicons  *)
(* and their sorted key indexes, the option set, dictionary loading, the   *)
(* name pre-pass and the greedy longest-match scan of trans_vp.            *)
(*                                                                         *)
(* A Python str is a sequence of characters; a character is a one-element  *)
(* TLA+ string.  CJK characters are written by their pinyin:               *)
(*   "de" = U+7684, "le" = U+4E86, "zhe" = U+7740 (the three particles),   *)
(*   "ni" = U+4F60, "hao" = U+597D, "ma" = U+5417,                         *)
(*   "li" = U+674E, "ming" = U+660E,                                       *)
(* and "\t" is the tab.  Vietnamese diacritics are dropped in values.      *)
(***************************************************************************)
EXTENDS Integers, Sequences, FiniteSets, TLC

VARIABLES
    options,          \* self.options: option name -> value
    dict_pa,          \* self.dict_pa
    dict_vp,          \* self.dict_vp
    dict_names,       \* self.dict_names
    dict_vp_keys,     \* self.dict_vp_keys
    dict_names_keys,  \* self.dict_names_keys
    op,               \* the operation that ran last
    arg,              \* its argument (text, file, option name/value)
    ret,              \* its return value
    pc,               \* position of the translate call in progress
    text,             \* trans_vp local: text (after the name pre-pass)
    i,                \* trans_vp local: scan position (0-based)
    result,           \* trans_vp local: output built so far
    dichlieu,         \* trans_vp local: particles to skip
    max_length,       \* trans_vp local: length of the longest phrase key
    opts0,            \* history: self.options when the call started
    load,             \* load_dict_from_file in progress: position, dict_type,
                      \* local result, number of lines read
    nset              \* history: set_option calls made by other callers

vars == <<options, dict_pa, dict_vp, dict_names, dict_vp_keys, dict_names_keys,
          op, arg, ret, pc, text, i, result, dichlieu, max_length, opts0, load, nset>>

engine == <<options, dict_pa, dict_vp, dict_names, dict_vp_keys, dict_names_keys>>
locals == <<pc, text, i, result, dichlieu, max_length, opts0>>

----------------------------------------------------------------------------
(* Bounds *)

MaxTextLen == 2   \* longest text a single caller translates
MaxScanLen == 3   \* longest text translated while other callers set options
MaxLineLen == 3   \* longest line of a dictionary file read line by line
MaxLines == 2     \* most lines read from one dictionary file
MaxSetOptions == 2  \* most set_option calls of other callers during one translate

----------------------------------------------------------------------------
(* Characters and Python str primitives *)

Ord(c) ==
    CASE c = "\t" -> 9
      [] c = " " -> 32
      [] c = "#" -> 35
      [] c = "/" -> 47
      [] c = "=" -> 61
      [] c = "A" -> 65
      [] c = "B" -> 66
      [] c = "L" -> 76
      [] c = "M" -> 77
      [] c = "[" -> 91
      [] c = "]" -> 93
      [] c = "a" -> 97
      [] c = "c" -> 99
      [] c = "h" -> 104
      [] c = "i" -> 105
      [] c = "n" -> 110
      [] c = "o" -> 111
      [] c = "x" -> 120
      [] c = "y" -> 121
      [] c = "z" -> 122
      [] c = "le" -> 20102
      [] c = "ni" -> 20320
      [] c = "ma" -> 21527
      [] c = "hao" -> 22909
      [] c = "ming" -> 26126
      [] c = "li" -> 26446
      [] c = "de" -> 30340
      [] c = "zhe" -> 30528

\* str.isspace() on the characters of the model
Whitespace == {" ", "\t"}

\* s[a:b] with 0-based, end-exclusive indices (Python slice, clamped)
Slice(s, a, b) ==
    LET hi == IF b > Len(s) THEN Len(s) ELSE b
    IN  IF a >= hi THEN <<>> ELSE SubSeq(s, a + 1, hi)

StartsWith(s, p) ==
    /\ Len(p) <= Len(s)
    /\ SubSeq(s, 1, Len(p)) = p

RECURSIVE LStrip(_)
LStrip(s) ==
    IF s # <<>> /\ Head(s) \in Whitespace THEN LStrip(Tail(s)) ELSE s

RECURSIVE RStrip(_)
RStrip(s) ==
    IF s # <<>> /\ s[Len(s)] \in Whitespace
    THEN RStrip(SubSeq(s, 1, Len(s) - 1))
    ELSE s

\* str.strip()
Strip(s) == RStrip(LStrip(s))

\* str.find(sub): 0-based index of the first occurrence, -1 if none
RECURSIVE FindFrom(_, _, _)
FindFrom(s, sub, k) ==
    IF k + Len(sub) > Len(s) THEN -1
    ELSE IF Slice(s, k, k + Len(sub)) = sub THEN k
    ELSE FindFrom(s, sub, k + 1)

Find(s, sub) == FindFrom(s, sub, 0)

\* str.replace(old, new) for a non-empty old: every non-overlapping
\* occurrence, left to right
RECURSIVE Replace(_, _, _)
Replace(s, old, new) ==
    IF Len(s) < Len(old) THEN s
    ELSE IF StartsWith(s, old)
         THEN new \o Replace(Slice(s, Len(old), Len(s)), old, new)
         ELSE <<Head(s)>> \o Replace(Tail(s), old, new)

\* re.sub(r' +', ' ', s)
RECURSIVE CollapseSpaces(_)
CollapseSpaces(s) ==
    IF s = <<>> THEN <<>>
    ELSE IF Head(s) = " " /\ Len(s) > 1 /\ s[2] = " "
         THEN CollapseSpaces(Tail(s))
         ELSE <<Head(s)>> \o CollapseSpaces(Tail(s))

\* lexicographic order of two str by code point
RECURSIVE LexLess(_, _)
LexLess(a, b) ==
    IF b = <<>> THEN FALSE
    ELSE IF a = <<>> THEN TRUE
    ELSE IF Head(a) # Head(b) THEN Ord(Head(a)) < Ord(Head(b))
    ELSE LexLess(Tail(a), Tail(b))

----------------------------------------------------------------------------
(* Lexicons: a dict is a function from keys (str) to values (str) *)

EmptyDict == [k \in {} |-> <<>>]

\* result[key] = value
Put(d, key, value) ==
    [k \in DOMAIN d \cup {key} |-> IF k = key THEN value ELSE d[k]]

\* line.startswith(('//', '#', '='))
IsComment(l) ==
    \/ StartsWith(l, <<"/", "/">>)
    \/ StartsWith(l, <<"#">>)
    \/ StartsWith(l, <<"=">>)

\* ReadLine with the key stripped like the value
ReadLine_TrimKey(res, line) ==
    LET l == Strip(line)
        p == Find(l, <<"=">>)
    IN  IF l = <<>> \/ IsComment(l) THEN res
        ELSE IF p = -1 THEN res
        ELSE Put(res, Strip(Slice(l, 0, p)), Strip(Slice(l, p + 1, Len(l))))

\* One iteration of "for line in f" of load_dict_from_file
ReadLine(res, line) ==
    LET l == Strip(line)
        p == Find(l, <<"=">>)
    IN  IF l = <<>> \/ IsComment(l) THEN res
        ELSE IF p = -1 THEN res
        ELSE Put(res, Slice(l, 0, p), Strip(Slice(l, p + 1, Len(l))))

\* The whole loop over the lines of a file, starting from result = {}
RECURSIVE ReadLines(_, _)
ReadLines(res, lines) ==
    IF lines = <<>> THEN res
    ELSE ReadLines(ReadLine(res, Head(lines)), Tail(lines))

\* KeyBefore with the length not negated: shorter keys first
KeyBefore_ShortestFirst(a, b) ==
    \/ Len(a) < Len(b)
    \/ Len(a) = Len(b) /\ LexLess(a, b)

\* key=lambda x: (-len(x), x)
KeyBefore(a, b) ==
    \/ Len(a) > Len(b)
    \/ Len(a) = Len(b) /\ LexLess(a, b)

\* sorted(d.keys(), key=lambda x: (-len(x), x))
RECURSIVE SortKeys(_)
SortKeys(S) ==
    IF S = {} THEN <<>>
    ELSE LET first == CHOOSE a \in S : \A b \in S \ {a} : KeyBefore(a, b)
         IN  <<first>> \o SortKeys(S \ {first})

Kinds == {"pa", "vp", "names"}

\* Lines 65-76 of load_dict_from_file: store result under dict_type, rebuild
\* the sorted key index of the phrase and name lexicons, return True
StoreDict(res, dict_type) ==
    /\ ret' = TRUE
    /\ UNCHANGED options
    /\ IF dict_type = "vp"
       THEN /\ dict_vp' = res
            /\ dict_vp_keys' = SortKeys(DOMAIN res)
            /\ UNCHANGED <<dict_pa, dict_names, dict_names_keys>>
       ELSE IF dict_type = "pa"
       THEN /\ dict_pa' = res
            /\ UNCHANGED <<dict_vp, dict_vp_keys, dict_names, dict_names_keys>>
       ELSE IF dict_type = "names"
       THEN /\ dict_names' = res
            /\ dict_names_keys' = SortKeys(DOMAIN res)
            /\ UNCHANGED <<dict_pa, dict_vp, dict_vp_keys>>
       ELSE UNCHANGED <<dict_pa, dict_vp, dict_vp_keys, dict_names, dict_names_keys>>

\* The except branch of load_dict_from_file: nothing is assigned
LoadFailed ==
    /\ ret' = FALSE
    /\ UNCHANGED engine

\* load_dict_from_file whose handler falls through and stores the empty result
load_dict_from_file_StoresOnFailure(file, dict_type) ==
    IF ~file.ok
    THEN StoreDict(EmptyDict, dict_type)
    ELSE StoreDict(ReadLines(EmptyDict, file.lines), dict_type)

\* load_dict_from_file(file, dict_type) as one call; file.ok = FALSE when the
\* file is missing, unreadable or undecodable (the exception handler runs)
load_dict_from_file(file, dict_type) ==
    IF ~file.ok
    THEN LoadFailed
    ELSE StoreDict(ReadLines(EmptyDict, file.lines), dict_type)

----------------------------------------------------------------------------
(* Option values: Python values, tagged by type *)

StrVal(s) == [t |-> "str", s |-> s, b |-> FALSE]
BoolVal(b) == [t |-> "bool", s |-> <<>>, b |-> b]

\* bool(value)
Truthy(v) == IF v.t = "bool" THEN v.b ELSE v.s # <<>>

\* self.options as set by __init__
DefaultOptions ==
    [Ngoac |-> BoolVal(FALSE), Motnghia |-> BoolVal(TRUE),
     daucach |-> StrVal(<<"/">>), DichLieu |-> BoolVal(TRUE)]

----------------------------------------------------------------------------
(* trans_pa and trans_vp *)

\* trans_pa(text)
RECURSIVE trans_pa(_)
trans_pa(t) ==
    IF t = <<>> THEN <<>>
    ELSE (IF <<Head(t)>> \in DOMAIN dict_pa
          THEN <<" ">> \o dict_pa[<<Head(t)>>]
          ELSE <<Head(t)>>) \o trans_pa(Tail(t))

\* the name pre-pass: for name in self.dict_names_keys: text = text.replace(...)
RECURSIVE RewriteNames(_, _)
RewriteNames(t, keys) ==
    IF keys = <<>> THEN t
    ELSE RewriteNames(Replace(t, Head(keys), <<" ">> \o dict_names[Head(keys)]),
                      Tail(keys))

\* lines 98-101
NamePass(t) ==
    IF dict_names # EmptyDict /\ dict_names_keys # <<>>
    THEN RewriteNames(t, dict_names_keys)
    ELSE t

\* line 104
MaxLength == IF dict_vp_keys # <<>> THEN Len(dict_vp_keys[1]) ELSE 0

Particles == {"de", "le", "zhe"}

\* line 105, given the value of options["DichLieu"]
DichLieuOf(v) == IF Truthy(v) THEN Particles ELSE {}

\* MatchLen trying the lengths in ascending order: range(1, max_length + 1)
RECURSIVE ShortestFrom(_, _, _, _)
ShortestFrom(t, k, j, ml) ==
    IF j > ml THEN 0
    ELSE IF k + j <= Len(t) /\ Slice(t, k, k + j) \in DOMAIN dict_vp THEN j
    ELSE ShortestFrom(t, k, j + 1, ml)

MatchLen_ShortestFirst(t, k, j) == ShortestFrom(t, k, 1, j)

\* for j in range(max_length, 0, -1): the first j with text[i:i+j] in dict_vp,
\* 0 when the loop ends without a match
RECURSIVE MatchLen(_, _, _)
MatchLen(t, k, j) ==
    IF j <= 0 THEN 0
    ELSE IF k + j <= Len(t) /\ Slice(t, k, k + j) \in DOMAIN dict_vp THEN j
    ELSE MatchLen(t, k, j - 1)

\* vp.split(sep)[0]: ValueError for an empty separator, TypeError for a
\* separator that is not a str
SplitFirst(vp, sep) ==
    IF sep.t # "str" THEN [err |-> "TypeError", s |-> <<>>]
    ELSE IF sep.s = <<>> THEN [err |-> "ValueError", s |-> <<>>]
    ELSE LET p == Find(vp, sep.s)
         IN  [err |-> "none", s |-> IF p = -1 THEN vp ELSE Slice(vp, 0, p)]

\* lines 123-127: the matched value formatted by the options read now
Format(vp, opts) ==
    LET one == IF Truthy(opts.Motnghia)
               THEN SplitFirst(vp, opts.daucach)
               ELSE [err |-> "none", s |-> vp]
    IN  IF one.err # "none" THEN one
        ELSE IF Truthy(opts.Ngoac)
             THEN [err |-> "none", s |-> <<"[">> \o Strip(one.s) \o <<"]">>]
             ELSE one

\* ScanStep that puts a space before an unmatched character too
ScanStep_SpaceBeforeChar(st, t, opts, dl, ml) ==
    LET j == MatchLen(t, st.i, ml)
    IN  IF j > 0
        THEN LET f == Format(dict_vp[Slice(t, st.i, st.i + j)], opts)
             IN  IF f.err # "none"
                 THEN [st EXCEPT !.err = f.err]
                 ELSE [st EXCEPT !.i = st.i + j,
                                 !.result = st.result \o <<" ">> \o f.s]
        ELSE LET char == t[st.i + 1]
             IN  IF char \in dl
                 THEN [st EXCEPT !.i = st.i + 1]
                 ELSE IF <<char>> \in DOMAIN dict_pa
                 THEN [st EXCEPT !.i = st.i + 1,
                                 !.result = st.result \o <<" ">> \o dict_pa[<<char>>]]
                 ELSE [st EXCEPT !.i = st.i + 1,
                                 !.result = st.result \o <<" ", char>>]

\* ScanStep that skips the particles whatever dichlieu holds
ScanStep_AlwaysDropsParticles(st, t, opts, dl, ml) ==
    LET j == MatchLen(t, st.i, ml)
    IN  IF j > 0
        THEN LET f == Format(dict_vp[Slice(t, st.i, st.i + j)], opts)
             IN  IF f.err # "none"
                 THEN [st EXCEPT !.err = f.err]
                 ELSE [st EXCEPT !.i = st.i + j,
                                 !.result = st.result \o <<" ">> \o f.s]
        ELSE LET char == t[st.i + 1]
             IN  IF char \in Particles
                 THEN [st EXCEPT !.i = st.i + 1]
                 ELSE IF <<char>> \in DOMAIN dict_pa
                 THEN [st EXCEPT !.i = st.i + 1,
                                 !.result = st.result \o <<" ">> \o dict_pa[<<char>>]]
                 ELSE [st EXCEPT !.i = st.i + 1,
                                 !.result = st.result \o <<char>>]

\* One iteration of the while loop (lines 109-153) from scan state
\* st = [i, result, err], reading the options opts and the locals dl, ml
ScanStep(st, t, opts, dl, ml) ==
    LET j == MatchLen(t, st.i, ml)
    IN  IF j > 0
        THEN LET f == Format(dict_vp[Slice(t, st.i, st.i + j)], opts)
             IN  IF f.err # "none"
                 THEN [st EXCEPT !.err = f.err]
                 ELSE [st EXCEPT !.i = st.i + j,
                                 !.result = st.result \o <<" ">> \o f.s]
        ELSE LET char == t[st.i + 1]
             IN  IF char \in dl
                 THEN [st EXCEPT !.i = st.i + 1]
                 ELSE IF <<char>> \in DOMAIN dict_pa
                 THEN [st EXCEPT !.i = st.i + 1,
                                 !.result = st.result \o <<" ">> \o dict_pa[<<char>>]]
                 ELSE [st EXCEPT !.i = st.i + 1,
                                 !.result = st.result \o <<char>>]

\* the while loop run to its end by one caller
RECURSIVE Scan(_, _, _, _, _)
Scan(st, t, opts, dl, ml) ==
    IF st.err # "none" \/ st.i >= Len(t) THEN st
    ELSE Scan(ScanStep(st, t, opts, dl, ml), t, opts, dl, ml)

\* line 156
CleanUp(s) == Strip(CollapseSpaces(s))

Returned(s) == [ok |-> TRUE, s |-> s, err |-> "none"]
Raised(e) == [ok |-> FALSE, s |-> <<>>, err |-> e]

\* trans_vp(text) run by one caller with no other caller in between
trans_vp(t) ==
    IF dict_vp = EmptyDict \/ dict_pa = EmptyDict
    THEN Returned(t)
    ELSE LET t2 == NamePass(t)
             fin == Scan([i |-> 0, result |-> <<>>, err |-> "none"], t2,
                         options, DichLieuOf(options.DichLieu), MaxLength)
         IN  IF fin.err # "none" THEN Raised(fin.err)
             ELSE Returned(CleanUp(fin.result))

----------------------------------------------------------------------------
(* Inputs: dictionary files, option values, texts *)

\* ChinesePhienAmWords.txt, first variant: A=a, U+7684=d
PhoneticFile1 ==
    << <<"A", "=", "a">>,
       <<"de", "=", "d">> >>

\* ChinesePhienAmWords.txt, second variant: U+4F60=ni, U+597D=hao
PhoneticFile2 ==
    << <<"ni", "=", "n", "i">>,
       <<"hao", "=", "h", "a", "o">> >>

\* vietphrase.txt, first variant: a comment, AB=x, A=y, B=y /x
PhraseFile1 ==
    << <<"#", "c">>,
       <<"A", "B", "=", "x">>,
       <<"A", "=", "y">>,
       <<"B", "=", "y", " ", "/", "x">> >>

\* vietphrase.txt, second variant: U+4F60 U+597D=xin chao
PhraseFile2 ==
    << <<"ni", "hao", "=", "x", "i", "n", " ", "c", "h", "a", "o">> >>

\* Names.txt: U+674E U+660E=Ly Minh, B=A
NamesFile ==
    << <<"li", "ming", "=", "L", "y", " ", "M", "i", "n", "h">>,
       <<"B", "=", "A">> >>

Readable(lines) == [ok |-> TRUE, lines |-> lines]
Unreadable == [ok |-> FALSE, lines |-> <<>>]

\* what a source of each kind may hold when it is loaded
Sources(kind) ==
    {Unreadable, Readable(<<>>)} \cup
    (IF kind = "pa" THEN {Readable(PhoneticFile1), Readable(PhoneticFile2)}
     ELSE IF kind = "vp" THEN {Readable(PhraseFile1), Readable(PhraseFile2)}
     ELSE {Readable(NamesFile)})

OptionNames == {"Ngoac", "Motnghia", "daucach", "DichLieu"}

\* values a caller passes to set_option: booleans for the three flags; the
\* default separator, an empty string and a boolean for the separator
OptionValues(name) ==
    IF name = "daucach"
    THEN {StrVal(<<"/">>), StrVal(<<>>), BoolVal(TRUE)}
    ELSE {BoolVal(TRUE), BoolVal(FALSE)}

SeqsUpTo(S, n) == UNION {[1..m -> S] : m \in 0..n}

TextChars == {" ", "de", "A", "B"}

\* the texts of the scenarios of the specification, and one with a tab
Scenarios ==
    {<<"ni", "hao", "ma">>, <<"li", "ming", "ni", "hao">>, <<"\t", "z">>}

Texts == SeqsUpTo(TextChars, MaxTextLen) \cup Scenarios

----------------------------------------------------------------------------
(* The engine with one caller at a time *)

idleLocals ==
    /\ pc = "idle"
    /\ text = <<>>
    /\ i = 0
    /\ result = <<>>
    /\ dichlieu = {}
    /\ max_length = 0
    /\ opts0 = DefaultOptions

idleLoad ==
    /\ load = [pc |-> "idle", kind |-> "pa", res |-> EmptyDict, n |-> 0]
    /\ nset = 0

\* __init__ lines 13-27: the fields before load_default_dictionaries runs
Constructed ==
    /\ options = DefaultOptions
    /\ dict_pa = EmptyDict
    /\ dict_vp = EmptyDict
    /\ dict_names = EmptyDict
    /\ dict_vp_keys = <<>>
    /\ dict_names_keys = <<>>

\* what a lexicon holds after load_default_dictionaries loaded file into it
Loaded(file) == IF file.ok THEN ReadLines(EmptyDict, file.lines) ELSE EmptyDict

\* __init__: the state after load_default_dictionaries loaded the three
\* sources, each of which may be unreadable
Init ==
    /\ options = DefaultOptions
    /\ \E fpa \in Sources("pa"), fvp \in Sources("vp"), fn \in Sources("names") :
          /\ dict_pa = Loaded(fpa)
          /\ dict_vp = Loaded(fvp)
          /\ dict_vp_keys = SortKeys(DOMAIN Loaded(fvp))
          /\ dict_names = Loaded(fn)
          /\ dict_names_keys = SortKeys(DOMAIN Loaded(fn))
    /\ op = "init"
    /\ arg = <<>>
    /\ ret = TRUE
    /\ idleLocals
    /\ idleLoad

\* loadLexicon(source, kind)
LoadLexicon ==
    \E kind \in Kinds : \E file \in Sources(kind) :
        /\ op' = "load"
        /\ arg' = [file |-> file, kind |-> kind]
        /\ load_dict_from_file(file, kind)
        /\ UNCHANGED <<locals, load, nset>>

\* translate(text)
Translate ==
    \E t \in Texts :
        /\ op' = "translate"
        /\ arg' = t
        /\ ret' = trans_vp(t)
        /\ UNCHANGED <<engine, locals, load, nset>>

\* transliterate(text)
Transliterate ==
    \E t \in Scenarios :
        /\ op' = "transliterate"
        /\ arg' = t
        /\ ret' = trans_pa(t)
        /\ UNCHANGED <<engine, locals, load, nset>>

\* set_option(name, value): the options afterwards and the value returned
set_option(name, value) ==
    IF name \in DOMAIN options
    THEN [options |-> [options EXCEPT ![name] = value], ret |-> TRUE]
    ELSE [options |-> options, ret |-> FALSE]

SetOption ==
    \E name \in OptionNames \cup {"Unknown"} : \E value \in OptionValues(name) :
        /\ op' = "setOption"
        /\ arg' = [name |-> name, value |-> value]
        /\ options' = set_option(name, value).options
        /\ ret' = set_option(name, value).ret
        /\ UNCHANGED <<dict_pa, dict_vp, dict_names, dict_vp_keys, dict_names_keys,
                       locals, load, nset>>

\* get_options()
GetOptions ==
    /\ op' = "getOptions"
    /\ arg' = <<>>
    /\ ret' = options
    /\ UNCHANGED <<engine, locals, load, nset>>

\* get_dictionary_status()
GetStatus ==
    /\ op' = "getStatus"
    /\ arg' = <<>>
    /\ ret' = [pa_dict |-> Cardinality(DOMAIN dict_pa),
               vp_dict |-> Cardinality(DOMAIN dict_vp),
               names_dict |-> Cardinality(DOMAIN dict_names)]
    /\ UNCHANGED <<engine, locals, load, nset>>

Next ==
    \/ LoadLexicon
    \/ Translate
    \/ Transliterate
    \/ SetOption
    \/ GetOptions
    \/ GetStatus

Spec == Init /\ [][Next]_vars

----------------------------------------------------------------------------
(* One translate call, statement by statement, while other callers of the
   same translator set options *)

ScanChars == {"A", "B", "de"}

ScanTexts == SeqsUpTo(ScanChars, MaxScanLen)

\* lines 93-108: the early return, the name pre-pass, max_length, dichlieu
\* built from options["DichLieu"], i = 0
TranslateBegin ==
    \E t \in ScanTexts :
        /\ pc = "idle"
        /\ op' = "translate"
        /\ arg' = t
        /\ opts0' = options
        /\ IF dict_vp = EmptyDict \/ dict_pa = EmptyDict
           THEN /\ pc' = "done"
                /\ ret' = Returned(t)
                /\ UNCHANGED <<text, max_length, dichlieu, i, result>>
           ELSE /\ pc' = "scan"
                /\ text' = NamePass(t)
                /\ max_length' = MaxLength
                /\ dichlieu' = DichLieuOf(options.DichLieu)
                /\ i' = 0
                /\ result' = <<>>
                /\ UNCHANGED ret
        /\ UNCHANGED <<engine, load, nset>>

\* TranslateScan that rebuilds dichlieu from the live options at each iteration
TranslateScan_LiveDichLieu ==
    /\ pc = "scan"
    /\ i < Len(text)
    /\ LET st == ScanStep([i |-> i, result |-> result, err |-> "none"],
                          text, options, DichLieuOf(options.DichLieu), max_length)
       IN  IF st.err # "none"
           THEN /\ pc' = "error"
                /\ ret' = Raised(st.err)
                /\ UNCHANGED <<i, result>>
           ELSE /\ i' = st.i
                /\ result' = st.result
                /\ UNCHANGED <<pc, ret>>
    /\ UNCHANGED <<engine, op, arg, text, dichlieu, max_length, opts0, load, nset>>

\* one iteration of the while loop, reading self.options as they are now
TranslateScan ==
    /\ pc = "scan"
    /\ i < Len(text)
    /\ LET st == ScanStep([i |-> i, result |-> result, err |-> "none"],
                          text, options, dichlieu, max_length)
       IN  IF st.err # "none"
           THEN /\ pc' = "error"
                /\ ret' = Raised(st.err)
                /\ UNCHANGED <<i, result>>
           ELSE /\ i' = st.i
                /\ result' = st.result
                /\ UNCHANGED <<pc, ret>>
    /\ UNCHANGED <<engine, op, arg, text, dichlieu, max_length, opts0, load, nset>>

\* the loop ends, line 156
TranslateEnd ==
    /\ pc = "scan"
    /\ i >= Len(text)
    /\ pc' = "done"
    /\ ret' = Returned(CleanUp(result))
    /\ UNCHANGED <<engine, op, arg, text, i, result, dichlieu, max_length, opts0, load, nset>>

\* set_option called by another caller
OtherSetOption ==
    \E name \in OptionNames \cup {"Unknown"} : \E value \in OptionValues(name) :
        /\ nset < MaxSetOptions
        /\ options' = set_option(name, value).options
        /\ nset' = nset + 1
        /\ UNCHANGED <<dict_pa, dict_vp, dict_names, dict_vp_keys, dict_names_keys,
                       op, arg, ret, locals, load>>

NextConc ==
    \/ TranslateBegin
    \/ TranslateScan
    \/ TranslateEnd
    \/ OtherSetOption

SpecConc == Init /\ [][NextConc]_vars

----------------------------------------------------------------------------
(* One load_dict_from_file call, line by line, as the constructor makes it
   on the fields of lines 13-27 *)

LoadChars == {" ", "=", "a"}

Lines == SeqsUpTo(LoadChars, MaxLineLen)

InitLoad ==
    /\ Constructed
    /\ op = "init"
    /\ arg = <<>>
    /\ ret = TRUE
    /\ idleLocals
    /\ idleLoad

\* line 52-54: result = {}, open(file_path); the open may fail
LoadOpen ==
    \E kind \in Kinds, ok \in BOOLEAN :
        /\ load.pc = "idle"
        /\ op' = "load"
        /\ arg' = <<>>
        /\ IF ok
           THEN /\ load' = [pc |-> "reading", kind |-> kind, res |-> EmptyDict, n |-> 0]
                /\ UNCHANGED <<ret, engine>>
           ELSE /\ load' = [load EXCEPT !.pc = "returned", !.kind = kind]
                /\ LoadFailed
        /\ UNCHANGED <<locals, nset>>

\* lines 55-63: the next line of the file is read and processed
LoadLine ==
    \E line \in Lines :
        /\ load.pc = "reading"
        /\ load.n < MaxLines
        /\ arg' = line
        /\ load' = [load EXCEPT !.res = ReadLine(load.res, line), !.n = @ + 1]
        /\ UNCHANGED <<engine, op, ret, locals, nset>>

\* reading the next line raises (undecodable bytes, I/O error): lines 77-79
LoadRaise ==
    /\ load.pc = "reading"
    /\ load' = [load EXCEPT !.pc = "returned"]
    /\ LoadFailed
    /\ UNCHANGED <<op, arg, locals, nset>>

\* end of file: lines 65-76
LoadEOF ==
    /\ load.pc = "reading"
    /\ load' = [load EXCEPT !.pc = "returned"]
    /\ StoreDict(load.res, load.kind)
    /\ UNCHANGED <<op, arg, locals, nset>>

NextLoad ==
    \/ LoadOpen
    \/ LoadLine
    \/ LoadRaise
    \/ LoadEOF

SpecLoad == InitLoad /\ [][NextLoad]_vars

----------------------------------------------------------------------------
(* Claims *)

Lexicon(kind) ==
    IF kind = "vp" THEN dict_vp ELSE IF kind = "pa" THEN dict_pa ELSE dict_names

\* every character of t is one of the three particles
OnlyParticles(t) == \A n \in 1..Len(t) : t[n] \in Particles

\* the characters that occur in the keys of a lexicon
KeyChars(d) == UNION {{key[n] : n \in 1..Len(key)} : key \in DOMAIN d}

NoLexiconChar(t) ==
    \A n \in 1..Len(t) :
        t[n] \notin KeyChars(dict_pa) \cup KeyChars(dict_vp) \cup KeyChars(dict_names)

\* leading and trailing spaces (U+0020 only) removed
RECURSIVE TrimSpaces(_)
TrimSpaces(s) ==
    IF s # <<>> /\ Head(s) = " " THEN TrimSpaces(Tail(s))
    ELSE IF s # <<>> /\ s[Len(s)] = " " THEN TrimSpaces(SubSeq(s, 1, Len(s) - 1))
    ELSE s

\* the phonetic-only rendering of t with the particles dl dropped
RECURSIVE PhoneticOnly(_, _)
PhoneticOnly(t, dl) ==
    IF t = <<>> THEN <<>>
    ELSE (IF Head(t) \in dl THEN <<>>
          ELSE IF <<Head(t)>> \in DOMAIN dict_pa
               THEN <<" ">> \o dict_pa[<<Head(t)>>]
               ELSE <<Head(t)>>) \o PhoneticOnly(Tail(t), dl)

\* C1: with an empty phrase lexicon and a non-empty phonetic lexicon,
\* translate returns the phonetic-only rendering of the text (name pre-pass,
\* scan, space-collapse and trim all run), not the input unchanged.
C1_EmptyPhraseLexiconStillRuns ==
    (op = "translate" /\ dict_vp = EmptyDict /\ dict_pa # EmptyDict)
        => ret = Returned(TrimSpaces(CollapseSpaces(
                     PhoneticOnly(NamePass(arg), DichLieuOf(options.DichLieu)))))

ScenarioPhrases == ReadLines(EmptyDict, PhraseFile2)
ScenarioPhonetic == ReadLines(EmptyDict, PhoneticFile2)
NiHaoMa == <<"ni", "hao", "ma">>

ScenarioCall ==
    /\ op = "translate"
    /\ arg = NiHaoMa
    /\ dict_vp = ScenarioPhrases
    /\ dict_pa = ScenarioPhonetic
    /\ options = DefaultOptions

\* C2 as stated: with the scenario's lexicons (and the default options)
\* translate(U+4F60 U+597D U+5417) returns "xin chao", one space, U+5417.
C2_ScenarioWithSpace ==
    ScenarioCall
        => ret = Returned(<<"x", "i", "n", " ", "c", "h", "a", "o", " ", "ma">>)

\* C2 as amended: the unmatched character follows the phrase translation
\* with no space in between: "xin chao" U+5417.
C2_ScenarioNoSpace ==
    ScenarioCall
        => ret = Returned(<<"x", "i", "n", " ", "c", "h", "a", "o", "ma">>)

C2_Witness == ScenarioCall /\ ret.ok

\* C3: for every text made only of particles, with drop-particles enabled and
\* whatever the lexicons hold, translate returns the empty string.
C3_ParticlesOnlyGivesEmpty ==
    (op = "translate" /\ OnlyParticles(arg) /\ Truthy(options.DichLieu))
        => ret = Returned(<<>>)

PassThroughCase ==
    /\ op = "translate"
    /\ NoLexiconChar(arg)

FailedLoad == op = "load" /\ ~arg.file.ok

\* C5 as stated: a failing loadLexicon returns false and leaves the lexicon
\* of that kind empty, also when an earlier call had loaded entries into it.
C5_FailedLoadLeavesEmpty ==
    FailedLoad => ret = FALSE /\ Lexicon(arg.kind) = EmptyDict

\* C5 as amended: a failing loadLexicon returns false and changes none of the
\* three lexicons and neither index: the lexicon of that kind keeps what it
\* held before the call.
C5_FailedLoadChangesNothing ==
    [][(op' = "load" /\ ~arg'.file.ok)
          => (ret' = FALSE /\ UNCHANGED <<dict_pa, dict_vp, dict_names,
                                           dict_vp_keys, dict_names_keys>>)]_vars

C5_Witness == FailedLoad /\ ret = FALSE /\ Lexicon(arg.kind) # EmptyDict

\* C6: after any successful setOption calls, translate returns a string for
\* every text: it never ends in an error.
C6_TranslateIsTotal ==
    op = "translate" => ret.ok

\* the phrase keys that are a prefix of t[k:]
PrefixKeys(t, k) ==
    {key \in DOMAIN dict_vp : StartsWith(Slice(t, k, Len(t)), key)}

IsPrefix(a, b) == Len(a) <= Len(b) /\ SubSeq(b, 1, Len(a)) = a

\* a step of the scan loop
ScanIteration == pc = "scan" /\ i < Len(text) /\ (i' # i \/ pc' # "scan")

\* C7: at every scan position where some phrase key is a prefix of the rest of
\* the text, the key selected is the longest such key: its value, formatted by
\* the options, is appended after one space and the position advances by the
\* key's length (the call ends there when formatting raises); the position
\* never moves back and output already emitted is never changed.
C7_GreedyLongestMatch ==
    [][ /\ (ScanIteration /\ PrefixKeys(text, i) # {})
             => LET best == CHOOSE key \in PrefixKeys(text, i) :
                               \A other \in PrefixKeys(text, i) : Len(other) <= Len(key)
                    f == Format(dict_vp[best], options)
                IN  IF f.err = "none"
                    THEN /\ pc' = "scan"
                         /\ i' = i + Len(best)
                         /\ result' = result \o <<" ">> \o f.s
                    ELSE pc' = "error" /\ i' = i /\ result' = result
        /\ (pc = "scan" /\ pc' = "scan") => (i' >= i /\ IsPrefix(result, result'))
      ]_vars

C7_Witness ==
    /\ pc = "scan"
    /\ text = <<"A", "B">>
    /\ <<"A">> \in DOMAIN dict_vp
    /\ <<"A", "B">> \in DOMAIN dict_vp
    /\ i = 2
    /\ result = <<" ">> \o dict_vp[<<"A", "B">>]

\* the part of a line after its first '=', stripped
LineValue(line) == Strip(Slice(line, Find(line, <<"=">>) + 1, Len(line)))

\* a line the loader ignores: empty, or its first non-space characters are a
\* comment marker
IgnoredLine(line) == LStrip(line) = <<>> \/ IsComment(LStrip(line))

\* a line that gives a record
RecordLine(line) == ~IgnoredLine(line) /\ Find(line, <<"=">>) # -1

LineIsRead == load.pc = "reading" /\ load'.pc = "reading" /\ load'.n = load.n + 1

FileIsStored == load.pc = "reading" /\ load'.pc = "returned" /\ ret' = TRUE

\* C8 as stated: the key stored for a line is the line's characters before its
\* first '=', leading and trailing whitespace kept; the value is the part
\* after the first '=' stripped; a later line with the same key wins.
C8_KeyVerbatim ==
    [][ /\ (LineIsRead /\ RecordLine(arg'))
             => load'.res = Put(load.res,
                                Slice(arg', 0, Find(arg', <<"=">>)),
                                LineValue(arg'))
        /\ FileIsStored => Lexicon(load.kind)' = load.res
      ]_vars

\* C8 as amended: the key is the line's characters before its first '=' with
\* the line's leading whitespace removed and the whitespace between the key
\* and the '=' kept; value and last-one-wins as stated.
C8_KeyWithoutLeadingWhitespace ==
    [][ /\ (LineIsRead /\ RecordLine(arg'))
             => load'.res = Put(load.res,
                                Slice(LStrip(arg'), 0, Find(LStrip(arg'), <<"=">>)),
                                LineValue(arg'))
        /\ (LineIsRead /\ ~RecordLine(arg')) => load'.res = load.res
        /\ FileIsStored => Lexicon(load.kind)' = load.res
      ]_vars

C8_Witness ==
    /\ load.pc = "returned"
    /\ ret = TRUE
    /\ arg = <<" ", "a", "=">>
    /\ DOMAIN Lexicon(load.kind) = {<<"a">>}
    /\ load.n = 2

\* C9 as stated: every iteration of the scan formats its match and drops
\* particles by the options as they were when the call started.
C9_OptionsOfCallStart ==
    [][ScanIteration
          => LET st == ScanStep([i |-> i, result |-> result, err |-> "none"], text,
                                opts0, DichLieuOf(opts0.DichLieu), max_length)
             IN  IF st.err # "none"
                 THEN pc' = "error"
                 ELSE pc' = "scan" /\ i' = st.i /\ result' = st.result
      ]_vars

\* C9 as amended: only drop-particles is fixed for the call: the particles
\* to drop are those of the option set when the call started, whatever
\* setOption does during the scan; first-meaning-only, meaning-separator and
\* bracket-wrap are read from the live option set at every match.
C9_OnlyParticlesFixed ==
    [][ /\ pc = "scan" => (dichlieu = DichLieuOf(opts0.DichLieu) /\ dichlieu' = dichlieu)
        /\ ScanIteration
             => LET st == ScanStep([i |-> i, result |-> result, err |-> "none"], text,
                                   options, DichLieuOf(opts0.DichLieu), max_length)
                IN  IF st.err # "none"
                    THEN pc' = "error"
                    ELSE pc' = "scan" /\ i' = st.i /\ result' = st.result
      ]_vars

C9_Witness ==
    /\ pc = "done"
    /\ nset > 0
    /\ opts0 = DefaultOptions
    /\ ~Truthy(options.DichLieu)
    /\ Truthy(options.Ngoac)
    /\ dichlieu = Particles
    /\ text = <<"de", "A">>
    /\ ret = Returned(<<"[", "y", "]">>)

\* idx lists each key of d once, longer keys first, keys of one length in
\* ascending code point order
IsSortedIndex(idx, d) ==
    /\ Len(idx) = Cardinality(DOMAIN d)
    /\ {idx[n] : n \in 1..Len(idx)} = DOMAIN d
    /\ \A m, n \in 1..Len(idx) :
          m < n => \/ Len(idx[m]) > Len(idx[n])
                   \/ Len(idx[m]) = Len(idx[n]) /\ LexLess(idx[m], idx[n])

\* C10: in every reachable state the sorted key index of the phrase lexicon
\* and that of the name lexicon are permutations of their lexicon's key set,
\* ordered by descending key length, then ascending lexicographic order.
C10_IndexesMatchLexicons ==
    /\ IsSortedIndex(dict_vp_keys, dict_vp)
    /\ IsSortedIndex(dict_names_keys, dict_names)

C10_Witness ==
    /\ op = "translate"
    /\ Len(dict_vp_keys) = 3
    /\ Len(dict_names_keys) = 2
    /\ Len(dict_vp_keys[2]) = Len(dict_vp_keys[3])

====
